---- MODULE Spec2Model ----
(***************************************************************************)
(* The Aralia OpenRAG agent pipeline: a LangGraph StateGraph of five      *)
(* BaseNode instances (search, planning, filter_decision, execution,      *)
(* interpretation) wired in a line by AraliaAssistantGraph._build_graph.  *)
(* Every node runs inside BaseNode.__call__, which turns any exception    *)
(* into an error-shaped state update; the graph merges each update into   *)
(* the GraphState (operator.add for search_results and errors, last value *)
(* for every other key) and moves on to the next node.                    *)
(***************************************************************************)
EXTENDS Integers, Sequences, FiniteSets, TLC

(***************************************************************************)
(* Bounds of the model.                                                    *)
(***************************************************************************)
MaxKeys == 2
MaxCharts == 2
MaxFields == 1

(***************************************************************************)
(* Program constants.                                                      *)
(***************************************************************************)
SearchAttempts == 5
PlanningAttemptsOneMore == 5 + 1
PlanningAttemptsTwice == 5 + 5
PlanningAttempts == 5
FilterAttemptsOneMore == 5 + 1
FilterAttempts == 5

(***************************************************************************)
(* Python values.  None is a token among the strings; an Optional[list]   *)
(* is a record that says whether it is None and holds the items; a dict   *)
(* is a function from its keys; a list that is an item of another list is *)
(* a record [list |-> items], which tells it from a dict where the code   *)
(* treats the two differently.                                            *)
(***************************************************************************)
PyNone == "<None>"
Absent == "<absent>"
NoneList == [none |-> TRUE, items |-> <<>>]
ListOf(s) == [none |-> FALSE, items |-> s]
Update(d, u) == [k \in (DOMAIN d) \cup (DOMAIN u) |-> IF k \in DOMAIN u THEN u[k] ELSE d[k]]
Without(d, keys) == [k \in (DOMAIN d) \ keys |-> d[k]]
SeqsUpTo(S, n) == UNION {[1..k -> S] : k \in 0..n}
Range(s) == {s[i] : i \in 1..Len(s)}

(***************************************************************************)
(* The graph.                                                              *)
(***************************************************************************)
Nodes == <<"aralia_search", "analytics_planning", "filter_decision",
           "analytics_execution", "interpretation">>
END == "END"
START == "START"

NodeIndex(n) == CHOOSE i \in 1..Len(Nodes) : Nodes[i] = n

\* An edge that leads from execution back to filter_decision.
NextNodeBack(n) ==
    IF n = "analytics_execution" THEN "filter_decision"
    ELSE IF NodeIndex(n) = Len(Nodes) THEN END ELSE Nodes[NodeIndex(n) + 1]

NextNode(n) ==
    IF NodeIndex(n) = Len(Nodes) THEN END ELSE Nodes[NodeIndex(n) + 1]

NodeName(n) ==
    CASE n = "aralia_search" -> "search"
      [] n = "analytics_planning" -> "planning"
      [] n = "filter_decision" -> "filter_decision"
      [] n = "analytics_execution" -> "execution"
      [] n = "interpretation" -> "interpretation"

VARIABLES
    node,                \* the graph node that runs (START before invoke, END after)
    phase,               \* position inside BaseNode.__call__: enter, loop, merge
    attempt,             \* the retry loop's index
    llm_calls,           \* LLM invocations made by the running node
    datasets,            \* the running node's local dict of datasets
    request,             \* the request handed to invoke
    outcome,             \* of invoke: pending, returned, raised
    question,
    response,
    search_results,
    final_response,
    errors,
    execution_metadata,
    delta,               \* the update the running node returned
    trace,               \* the nodes executed so far, in order
    merged,              \* the nodes whose update the graph has merged, in order
    proposed,            \* the LLM's last parsed answer in the running node
    exec_log,            \* what each exploration call of Execution did, in order
    shared,              \* the response's dicts are the ones Search appended
                         \* to search_results (the same objects)
    snapshot,            \* the update Search returned before it was run again
    prompt_info,         \* the information Interpretation put in its prompt
    handles,             \* state["ai"] and state["at"]: the LLM and the data client
    http                 \* the AraliaClient: its token and the requests of one _make_request

vars == <<node, phase, attempt, llm_calls, datasets, request, outcome, question,
          response, search_results, final_response, errors, execution_metadata,
          delta, trace, merged, proposed, exec_log, shared, snapshot,
          prompt_info, handles, http>>

stateVars == <<question, response, search_results, final_response, errors,
               execution_metadata>>

NoDelta == [nodelta |-> TRUE]
NoDatasets == [d \in {} |-> <<>>]

(***************************************************************************)
(* The data planet: the datasets a search can return and the column       *)
(* catalog of each, as get_dataset_metadata processes it.                  *)
(***************************************************************************)
DatasetIds == {"d1", "d2"}
UnknownKey == "zz"
SourceURL == "https://planet"

DatasetName(d) == IF d = "d1" THEN "sales" ELSE "regions/areas"

\* One item of search_datasets' result; the planet may list a dataset
\* without a sourceURL (search_datasets cleans the URL only if it is there).
DatasetSummary(d, withURL) ==
    IF withURL THEN [id |-> d, name |-> DatasetName(d), sourceURL |-> SourceURL]
    ELSE [id |-> d, name |-> DatasetName(d)]

\* The datasets that can be listed without a sourceURL.
MayLackURL == {"d2"}

Column(c, n, t) == [columnID |-> c, displayName |-> n, type |-> t]

\* processed_columns of get_dataset_metadata: columnID -> column.
Catalog(d) ==
    IF d = "d1"
    THEN [c \in {"c1", "c2", "c3"} |->
            CASE c = "c1" -> Column("c1", "city", "nominal")
              [] c = "c2" -> Column("c2", "amount", "integer")
              [] c = "c3" -> Column("c3", "day", "date")]
    ELSE [c \in {"c4"} |-> Column("c4", "area", "space")]

\* get_dataset_metadata's result for a dataset the planet knows.
Metadata(d) == [id |-> d, name |-> DatasetName(d), sourceURL |-> SourceURL,
                columns |-> Catalog(d)]

(***************************************************************************)
(* BaseNode.handle_error: the error-shaped update of a failed node.        *)
(***************************************************************************)
\* The message without the node's name.
ErrorMsgBare(name, text) == text

ErrorMsg(name, text) == name \o " node error: " \o text

\* An error update that also answers with the error text.
HandleErrorAnswering(name, text) ==
    [errors |-> <<ErrorMsg(name, text)>>,
     execution_metadata |->
        ((name \o "_failed") :> TRUE) @@ ((name \o "_error") :> text),
     final_response |-> text]

HandleError(name, text) ==
    [errors |-> <<ErrorMsg(name, text)>>,
     execution_metadata |->
        ((name \o "_failed") :> TRUE) @@ ((name \o "_error") :> text)]

InvalidInput == "Invalid input state"
NotIterable == "'NoneType' object is not iterable"
RequestFailed == "request failed"
LLMFailed == "llm call failed"

\* BaseNode.validate_input
ValidateInput == question # PyNone

(***************************************************************************)
(* The update LangGraph applies after a node returns: operator.add on the  *)
(* annotated lists, last value on every other key the update names.        *)
(***************************************************************************)
\* Every key takes the update's value: no reducer on the annotated lists.
MergedLastValue(key, old) == IF key \notin DOMAIN delta THEN old ELSE delta[key]

Merged(key, old) ==
    IF key \notin DOMAIN delta THEN old
    ELSE IF key \in {"search_results", "errors"} THEN old \o delta[key]
    ELSE delta[key]

\* Search returns one list as `response` and as `search_results`, and
\* operator.add copies the list, not its dicts: until a later node replaces
\* the response, a dict updated in place through the response is updated in
\* search_results too.
InPlace(items) ==
    IF shared
    THEN [i \in 1..Len(search_results) |->
            IF i <= Len(items) THEN items[i] ELSE search_results[i]]
    ELSE search_results

(***************************************************************************)
(* AraliaAssistantGraph.invoke and _prepare_state: the request is checked, *)
(* the LLM and the data client are created, and create_initial_state       *)
(* builds the GraphState the graph starts from.                            *)
(***************************************************************************)
\* The data client at rest: no _make_request is running.  `token` counts the
\* tokens the client has held (0: it holds none), `header` is the token in
\* the running call's Authorization header, `sent` the requests sent to the
\* API with the token each carried and the answer each got.
NoHttp == [pc |-> "idle", call |-> 0, try |-> 0, token |-> 0, header |-> 0,
           sent |-> <<>>, auths |-> 0]

Requests == [question : {Absent, PyNone, "q"}, ai : {Absent, "", "key"}]

\* The handles before _prepare_state, and as it sets them: the LLM instance
\* made from the API key and the AraliaClient made from the credentials.
\* `credentials` says whether the state holds both aralia_client_id and
\* aralia_client_secret.
NoHandles == [ai |-> PyNone, at |-> PyNone, credentials |-> FALSE]
Prepared == [ai |-> "llm", at |-> "client", credentials |-> TRUE]

InitialMetadata ==
    [start_time |-> "t0", current_node |-> PyNone, completed_nodes |-> <<>>,
     total_datasets_found |-> 0, selected_dataset_count |-> 0]

Init ==
    /\ node = START
    /\ phase = "enter"
    /\ attempt = 0
    /\ llm_calls = 0
    /\ datasets = NoDatasets
    /\ request \in Requests
    /\ outcome = "pending"
    /\ question = PyNone
    /\ response = NoneList
    /\ search_results = <<>>
    /\ final_response = PyNone
    /\ errors = <<>>
    /\ execution_metadata = InitialMetadata
    /\ delta = NoDelta
    /\ trace = <<>>
    /\ merged = <<>>
    /\ proposed = <<>>
    /\ exec_log = <<>>
    /\ shared = FALSE
    /\ snapshot = NoDelta
    /\ prompt_info = <<>>
    /\ handles = NoHandles
    /\ http = NoHttp

\* Only invoke's check of the question.
RequestValidQuestionOnly(r) == r.question # Absent

RequestValid(r) == r.question # Absent /\ r.ai \notin {Absent, PyNone, ""}

\* invoke: a request that fails the checks, or whose data client cannot
\* authenticate, raises before the graph runs.
Invoke ==
    /\ node = START
    /\ outcome = "pending"
    /\ \E authenticated \in BOOLEAN :
          IF RequestValid(request) /\ authenticated
          THEN /\ node' = Nodes[1]
               /\ question' = request.question
               /\ handles' = Prepared
               /\ outcome' = outcome
          ELSE /\ node' = END
               /\ question' = question
               /\ handles' = handles
               /\ outcome' = "raised"
    /\ UNCHANGED <<phase, attempt, llm_calls, datasets, request, response,
                   search_results, final_response, errors, execution_metadata,
                   delta, trace, merged, shared, snapshot, prompt_info, proposed,
                   exec_log, http>>

\* A node returns `d` from BaseNode.__call__.
Return(d) ==
    /\ delta' = d
    /\ phase' = "merge"

\* The graph applies the returned update and follows the node's edge.
Merge ==
    /\ node \in Range(Nodes)
    /\ phase = "merge"
    /\ response' = Merged("response", response)
    /\ search_results' = Merged("search_results", search_results)
    /\ final_response' = Merged("final_response", final_response)
    /\ errors' = Merged("errors", errors)
    /\ execution_metadata' = Merged("execution_metadata", execution_metadata)
    /\ node' = NextNode(node)
    /\ phase' = "enter"
    /\ delta' = NoDelta
    /\ attempt' = 0
    /\ llm_calls' = 0
    /\ datasets' = NoDatasets
    /\ outcome' = IF NextNode(node) = END THEN "returned" ELSE outcome
    /\ merged' = Append(merged, node)
    /\ proposed' = <<>>
    /\ shared' = IF "response" \in DOMAIN delta THEN node = "aralia_search" ELSE shared
    /\ handles' = [handles EXCEPT !.ai = Merged("ai", handles.ai),
                                   !.at = Merged("at", handles.at)]
    /\ question' = Merged("question", question)
    /\ UNCHANGED <<request, trace, exec_log, snapshot, prompt_info, http>>

(***************************************************************************)
(* SearchNode.                                                             *)
(***************************************************************************)
LastSearchAttempt == 4

SearchExhausted == "Unable to extract relevant datasets after 5 attempts"
Unbound == "local variable 'filtered_datasets' referenced before assignment"

SearchAnswers == SeqsUpTo(DatasetIds \cup {UnknownKey}, MaxKeys)

\* Every candidate, whatever the LLM selected.
FilteredDatasetsAll(ds, keys) ==
    LET ids == CHOOSE q \in [1..Cardinality(DOMAIN ds) -> DOMAIN ds] :
                  \A i, j \in DOMAIN q : i # j => q[i] # q[j]
    IN  [i \in DOMAIN ids |-> ds[ids[i]]]

\* One entry per key of the LLM, a candidate or not.
FilteredDatasetsUnchecked(ds, keys) ==
    [i \in 1..Len(keys) |->
        IF keys[i] \in DOMAIN ds THEN ds[keys[i]] ELSE [id |-> keys[i]]]

\* [datasets[item] for item in response['dataset_key'] if item in datasets]
FilteredDatasets(ds, keys) ==
    LET kept == SelectSeq(keys, LAMBDA k : k \in DOMAIN ds)
    IN  [i \in 1..Len(kept) |-> ds[kept[i]]]

\* Counts that add up over the runs (+= for =).
SearchMetadataAdding(md, ds, filtered) ==
    Update(md, [total_datasets_found |-> md.total_datasets_found + Cardinality(DOMAIN ds),
                selected_dataset_count |-> md.selected_dataset_count + Len(filtered)])

SearchMetadata(md, ds, filtered) ==
    Update(md, [total_datasets_found |-> Cardinality(DOMAIN ds),
                selected_dataset_count |-> Len(filtered)])

\* aralia_client = AraliaClient(...), whatever the state holds
SearchClientNew == "new client"

\* aralia_client = state.get("at"), a new AraliaClient if there is none
SearchClient == IF handles.at = PyNone THEN "new client" ELSE handles.at

\* __call__ up to the retry loop: SearchNode.validate_input (BaseNode's check
\* of the question, then the data client or the credentials to make one),
\* then search_datasets.
SearchEnter ==
    /\ node = "aralia_search"
    /\ phase = "enter"
    /\ trace' = Append(trace, node)
    /\ IF ~ValidateInput \/ (handles.at = PyNone /\ ~handles.credentials)
       THEN /\ Return(HandleError("search", InvalidInput))
            /\ datasets' = datasets
       ELSE \E found \in SUBSET DatasetIds, ok \in BOOLEAN :
            \E bare \in SUBSET (found \cap MayLackURL) :
              IF ok
              THEN /\ datasets' = [d \in found |-> DatasetSummary(d, d \notin bare)]
                   /\ phase' = "loop"
                   /\ delta' = delta
              ELSE /\ Return(HandleError("search", RequestFailed))
                   /\ datasets' = datasets
    /\ UNCHANGED <<attempt, llm_calls, request, outcome, stateVars, node, merged, shared, snapshot, prompt_info, handles, http,
                   proposed, exec_log>>

\* One iteration of the retry loop: the structured LLM is invoked; a failed
\* invocation is retried, the last one raises.
SearchAttempt(Answers) ==
    /\ node = "aralia_search"
    /\ phase = "loop"
    /\ attempt < SearchAttempts
    /\ llm_calls' = llm_calls + 1
    /\ \/ \E keys \in Answers :
            LET filtered == FilteredDatasets(datasets, keys)
                md == SearchMetadata(execution_metadata, datasets, filtered)
            IN  /\ proposed' = keys
                /\ execution_metadata' = md
                /\ Return([response |-> ListOf(filtered),
                           search_results |-> filtered,
                           execution_metadata |-> md,
                           at |-> SearchClient])
                /\ attempt' = attempt
       \/ /\ execution_metadata' = execution_metadata
          /\ proposed' = <<>>
          /\ IF attempt = LastSearchAttempt
             THEN /\ Return(HandleError("search", SearchExhausted))
                  /\ attempt' = attempt
             ELSE IF attempt + 1 < SearchAttempts
             THEN /\ attempt' = attempt + 1
                  /\ UNCHANGED <<delta, phase>>
             ELSE /\ Return(HandleError("search", Unbound))
                  /\ attempt' = attempt + 1
    /\ UNCHANGED <<node, datasets, request, outcome, question, response,
                   search_results, final_response, errors, trace, merged, shared, snapshot, prompt_info, handles, http, exec_log>>

(***************************************************************************)
(* PlanningNode.                                                           *)
(***************************************************************************)
NoData == "Unable to retrieve data from the searched planet, program terminated"
PlanningExhausted == "AI model failed to generate accurate API calls"
NoSourceURL == "'sourceURL'"

\* PromptTemplates.get_format_options
DateFormats ==
    {"year", "quarter", "month", "week", "date", "day", "weekday", "year_month",
     "year_quarter", "year_week", "month_day", "day_hour", "hour", "minute",
     "second", "hour_minute", "time"}
SpaceFormats ==
    {"admin_level_2", "admin_level_3", "admin_level_4", "admin_level_5",
     "admin_level_6", "admin_level_7", "admin_level_8", "admin_level_9",
     "admin_level_10"}
Calculations == {"count", "sum", "avg", "min", "max", "distinct_count"}

\* The datasets Planning enriches: datasets[id] = {**dataset, **metadata} for
\* every item of the response whose metadata fetch returned something
\* (`fetched` holds their positions); the last such item of an id stays.
Enriched(items, fetched) ==
    LET ids == {items[i].id : i \in fetched}
        last(d) == CHOOSE i \in fetched :
                      /\ items[i].id = d
                      /\ \A j \in fetched : items[j].id = d => j <= i
    IN  [d \in ids |-> Update(items[last(d)], Metadata(d))]

\* The format Planning writes on an x or filter field.
FieldFormat(f) ==
    IF f.type \notin {"date", "datetime", "space"} THEN f.format
    ELSE IF \/ (f.type \in {"date", "datetime"} /\ f.format \in DateFormats)
            \/ (f.type = "space" /\ f.format \in SpaceFormats)
         THEN f.format
         ELSE f.format

\* The y fields Planning keeps.
KeepY(y) == y.type \in {"integer", "float"} /\ y.calculation \in Calculations

KeptY(chart) == SelectSeq(chart.y, KeepY)

\* A dict lookup d[k]: the value, or the KeyError Python raises.
KeyError(k) == [keyerror |-> k]
IsKeyError(v) == "keyerror" \in DOMAIN v
Lookup(d, k) == IF k \in DOMAIN d THEN d[k] ELSE KeyError(k)

\* datasets[chart['id']]['columns']
ColumnsOf(ds, chart) ==
    IF IsKeyError(Lookup(ds, chart.id)) THEN KeyError(chart.id)
    ELSE ds[chart.id].columns

\* The fields whose column Planning looks up: every x, the kept y, every filter.
LookedUp(chart) == Range(chart.x) \cup Range(KeptY(chart)) \cup Range(chart.filter)

\* Building the chart raises: the dataset or a looked-up column is missing.
ChartRaises(ds, chart) ==
    \/ IsKeyError(Lookup(ds, chart.id))
    \/ \E f \in LookedUp(chart) : IsKeyError(Lookup(ColumnsOf(ds, chart), f.columnID))

BuildChart(ds, chart) ==
    LET cols == ColumnsOf(ds, chart)
        ky == KeptY(chart)
    IN  Update(Without(ds[chart.id], {"columns"}),
               [x |-> [i \in 1..Len(chart.x) |->
                         Update(Lookup(cols, chart.x[i].columnID),
                                [format |-> FieldFormat(chart.x[i])])],
                y |-> [i \in 1..Len(ky) |->
                         Update(Lookup(cols, ky[i].columnID),
                                [calculation |-> ky[i].calculation])],
                filter |-> [i \in 1..Len(chart.filter) |->
                         Update(Lookup(cols, chart.filter[i].columnID),
                                [format |-> FieldFormat(chart.filter[i])])]])

ProposalRaises(ds, charts) == \E i \in 1..Len(charts) : ChartRaises(ds, charts[i])

BuildCharts(ds, charts) == [i \in 1..Len(charts) |-> BuildChart(ds, charts[i])]

\* __call__ up to the retry loop: validate_input, then the metadata fetches.
PlanningEnter ==
    /\ node = "analytics_planning"
    /\ phase = "enter"
    /\ trace' = Append(trace, node)
    /\ IF ~ValidateInput
       THEN /\ Return(HandleError("planning", InvalidInput))
            /\ datasets' = datasets
       ELSE IF response.none
       THEN /\ Return(HandleError("planning", NotIterable))
            /\ datasets' = datasets
       ELSE IF \E i \in 1..Len(response.items) : "sourceURL" \notin DOMAIN response.items[i]
       THEN /\ Return(HandleError("planning", NoSourceURL))
            /\ datasets' = datasets
       ELSE \E fetched \in SUBSET (1..Len(response.items)) :
              LET ds == Enriched(response.items, fetched)
              IN  IF DOMAIN ds = {}
                  THEN /\ Return(HandleError("planning", NoData))
                       /\ datasets' = datasets
                  ELSE /\ datasets' = ds
                       /\ phase' = "loop"
                       /\ delta' = delta
    /\ UNCHANGED <<attempt, llm_calls, request, outcome, stateVars, node, merged, shared, snapshot, prompt_info, handles, http,
                   proposed, exec_log>>

\* One iteration of the retry loop: the LLM is invoked and the last json block
\* of its answer parsed and built into chart specs; any exception is retried.
PlanningAttempt(Proposals) ==
    /\ node = "analytics_planning"
    /\ phase = "loop"
    /\ attempt < PlanningAttempts
    /\ llm_calls' = llm_calls + 1
    /\ \/ \E charts \in Proposals :
            /\ ~ProposalRaises(datasets, charts)
            /\ proposed' = charts
            /\ Return([response |-> ListOf(BuildCharts(datasets, charts))])
            /\ attempt' = attempt
       \/ \* no json block, unparsable json, a missing key or a KeyError
          /\ proposed' = <<>>
          /\ IF attempt + 1 < PlanningAttempts
             THEN /\ attempt' = attempt + 1
                  /\ UNCHANGED <<delta, phase>>
             ELSE /\ Return(HandleError("planning", PlanningExhausted))
                  /\ attempt' = attempt + 1
    /\ UNCHANGED <<node, datasets, request, outcome, stateVars, trace, merged, shared, snapshot, prompt_info, handles, http,
                   exec_log>>

(***************************************************************************)
(* FilterDecisionNode.                                                     *)
(***************************************************************************)
FilterExhausted == "AI model cannot select accurate filter value"

\* The distinct values the planet lists for a filter column.
FilterValues(c) == <<"v1", "v2">>

\* Where the loop over the charts' filter columns raises, <<0, 0>> where it
\* does not: at <<i, 0>> the call's arguments, for a chart with a filter and
\* no id or no sourceURL; at <<i, j>> get_filter_options' except clause, for
\* a filter column that is a list (filter_column.get on a list).
FilterStop(items) ==
    LET bad == UNION {{<<i, j>> : j \in {k \in 0..Len(items[i].filter) :
                           IF k = 0
                           THEN {"id", "sourceURL"} \ DOMAIN items[i] # {}
                           ELSE "list" \in DOMAIN items[i].filter[k]}} :
                      i \in {k \in 1..Len(items) : "filter" \in DOMAIN items[k]}}
        before(a, b) == a[1] < b[1] \/ (a[1] = b[1] /\ a[2] < b[2])
    IN  IF bad = {} THEN <<0, 0>>
        ELSE CHOOSE a \in bad : \A b \in bad \ {a} : before(a, b)

\* The filter columns get_filter_options writes on: (chart, field), every
\* one before the place the loop raises at.
FilterPositions(items) ==
    LET stop == FilterStop(items)
    IN  UNION {{<<i, j>> : j \in {k \in 1..Len(items[i].filter) :
                     stop = <<0, 0>> \/ i < stop[1] \/ (i = stop[1] /\ k < stop[2])}} :
               i \in {k \in 1..Len(items) : "filter" \in DOMAIN items[k]}}

\* get_filter_options writes 'values' on a filter column in place: the
\* listed values where the request worked (`listed`), [] where it failed.
WithFilterOptions(items, listed) ==
    [i \in 1..Len(items) |->
        IF "filter" \notin DOMAIN items[i] THEN items[i]
        ELSE Update(items[i],
               [filter |-> [j \in 1..Len(items[i].filter) |->
                    IF <<i, j>> \notin FilterPositions(items) THEN items[i].filter[j]
                    ELSE Update(items[i].filter[j],
                           [values |-> IF <<i, j>> \in listed
                                       THEN FilterValues(items[i].filter[j].columnID)
                                       ELSE <<>>])]])]

\* The format key is popped from no field.
PopFormatNever(f) == f

\* x.pop("format", None) for a field whose type carries no format
PopFormat(f) ==
    IF f.type \notin {"date", "datetime", "space"} THEN Without(f, {"format"}) ELSE f

\* The loop body without chart["filter"] = [chart["filter"]].
PostProcessUnwrapped(chart) ==
    Update(chart,
           [x |-> [i \in 1..Len(chart.x) |-> PopFormat(chart.x[i])],
            filter |-> [i \in 1..Len(chart.filter) |->
                          [list |-> <<PopFormat(chart.filter[i])>>]]])

\* What the loop body does to one chart of the LLM's answer.
PostProcess(chart) ==
    Update(chart,
           [x |-> [i \in 1..Len(chart.x) |-> PopFormat(chart.x[i])],
            filter |-> <<[list |-> [i \in 1..Len(chart.filter) |->
                                      PopFormat(chart.filter[i])]]>>])

PostProcessAll(querys) == [i \in 1..Len(querys) |-> PostProcess(querys[i])]

\* __call__ up to the retry loop: validate_input, then the filter options,
\* written on the state's charts also when a later column raises.
FilterEnter ==
    /\ node = "filter_decision"
    /\ phase = "enter"
    /\ trace' = Append(trace, node)
    /\ IF ~ValidateInput
       THEN /\ Return(HandleError("filter_decision", InvalidInput))
            /\ response' = response
       ELSE IF response.none
       THEN /\ Return(HandleError("filter_decision", NotIterable))
            /\ response' = response
       ELSE \E listed \in SUBSET FilterPositions(response.items) :
              LET stop == FilterStop(response.items)
              IN  /\ response' = ListOf(WithFilterOptions(response.items, listed))
                  /\ IF stop = <<0, 0>>
                     THEN /\ phase' = "loop"
                          /\ delta' = delta
                     ELSE Return(HandleError("filter_decision",
                            IF stop[2] > 0
                            THEN "'list' object has no attribute 'get'"
                            ELSE IF "id" \notin DOMAIN response.items[stop[1]]
                            THEN "'id'" ELSE NoSourceURL))
    /\ search_results' = InPlace(response'.items)
    /\ UNCHANGED <<attempt, llm_calls, datasets, request, outcome, question,
                   final_response, errors, execution_metadata,
                   node, merged, shared, snapshot, prompt_info, handles, http, proposed, exec_log>>

\* One iteration of the retry loop: the structured LLM answers a QueryList,
\* whose charts are post-processed; any exception is retried.
FilterAttempt(Answers) ==
    /\ node = "filter_decision"
    /\ phase = "loop"
    /\ attempt < FilterAttempts
    /\ llm_calls' = llm_calls + 1
    /\ \/ \E querys \in Answers :
            /\ proposed' = querys
            /\ Return([response |-> ListOf(PostProcessAll(querys))])
            /\ attempt' = attempt
       \/ /\ proposed' = <<>>
          /\ IF attempt + 1 < FilterAttempts
             THEN /\ attempt' = attempt + 1
                  /\ UNCHANGED <<delta, phase>>
             ELSE /\ Return(HandleError("filter_decision", FilterExhausted))
                  /\ attempt' = attempt + 1
    /\ UNCHANGED <<node, datasets, request, outcome, stateVars, trace, merged, shared, snapshot, prompt_info, handles, http,
                   exec_log>>

(***************************************************************************)
(* ExecutionNode, AraliaClient.execute_exploration and                     *)
(* DataProcessor.prepare_chart_data.                                       *)
(***************************************************************************)
JsonRows == 400

NoRows == "No data available"

\* str(n) of a natural number, as an f-string writes it.
RECURSIVE Str(_)
Str(n) ==
    IF n < 10
    THEN <<"0", "1", "2", "3", "4", "5", "6", "7", "8", "9">>[n + 1]
    ELSE Str(n \div 10) \o Str(n % 10)

\* The rows the planet answers an exploration with.
SampleRows ==
    <<[x |-> <<<<"A">>>>, values |-> <<10>>],
      [x |-> <<<<"B">>>>, values |-> <<20>>]>>

\* What one call of execute_exploration can do: answer rows, answer no row,
\* answer rows prepare_chart_data cannot parse, or fail on the request.
CallOutcomes == {"rows", "empty", "malformed", "failed"}

\* execute_exploration's result: a failed request is logged and becomes [].
ExplorationResult(o) ==
    IF o \in {"failed", "empty"} THEN <<>>
    ELSE IF o = "malformed" THEN <<[values |-> <<10>>]>>
    ELSE SampleRows

\* The config ExecutionNode hands to prepare_chart_data.
ChartConfig(chart) ==
    [name |-> IF "name" \in DOMAIN chart THEN chart.name ELSE "chart",
     x |-> IF "x" \in DOMAIN chart THEN chart.x ELSE <<>>,
     y |-> IF "y" \in DOMAIN chart THEN chart.y ELSE <<>>]

\* The labels prepare_chart_data reads from the chart config: the field's
\* displayName, x0, x1, ... (y0, y1, ...) for a field without one.
AxisLabels(chart, axis) ==
    IF axis \in DOMAIN chart
    THEN [i \in 1..Len(chart[axis]) |->
            IF "displayName" \in DOMAIN chart[axis][i]
            THEN chart[axis][i].displayName
            ELSE axis \o Str(i - 1)]
    ELSE <<>>

\* [f"x{i+1}" for i in range(n)]
Positional(prefix, n) == [i \in 1..n |-> prefix \o Str(i)]

\* DataProcessor.parse_exploration_results: one column per x dimension, then
\* one per value; the labels are used only when their count fits.
ParseExplorationResults(rows, x_labels, value_labels) ==
    LET nx == Len(rows[1].x)
        nv == Len(rows[1].values)
        xcols == IF x_labels # <<>> /\ Len(x_labels) = nx
                 THEN x_labels ELSE Positional("x", nx)
        vcols == IF value_labels # <<>> /\ Len(value_labels) = nv
                 THEN value_labels ELSE Positional("value", nv)
    IN  [columns |-> xcols \o vcols,
         rows |-> [r \in 1..Len(rows) |->
                     [i \in 1..nx |-> rows[r].x[i][1]] \o rows[r].values]]

NoTable == [none |-> TRUE, columns |-> <<>>, rows |-> <<>>]
Table(t) == [none |-> FALSE, columns |-> t.columns, rows |-> t.rows]
JsonNull == [none |-> TRUE, records |-> <<>>]

\* parsed_df.to_json(orient='records'), every row
JsonDataAll(t) ==
    [none |-> FALSE,
     records |-> [r \in 1..Len(t.rows) |->
                    [c \in Range(t.columns) |->
                        t.rows[r][CHOOSE i \in 1..Len(t.columns) : t.columns[i] = c]]]]

\* parsed_df.head(400).to_json(orient='records')
JsonData(t) ==
    [none |-> FALSE,
     records |-> [r \in 1..(IF Len(t.rows) < JsonRows THEN Len(t.rows) ELSE JsonRows) |->
                    [c \in Range(t.columns) |->
                        t.rows[r][CHOOSE i \in 1..Len(t.columns) : t.columns[i] = c]]]]

\* save_results_to_csv: the file of the config's name (chart_data for a
\* config without one), every "/" of the name written "_".
CsvPath(chart_config) ==
    LET RECURSIVE Clean(_)
        Clean(name) ==
            IF Len(name) = 0 THEN ""
            ELSE (IF SubSeq(name, 1, 1) = "/" THEN "_" ELSE SubSeq(name, 1, 1))
                 \o Clean(SubSeq(name, 2, Len(name)))
    IN  "csv_img/"
        \o Clean(IF "name" \in DOMAIN chart_config THEN chart_config.name
                 ELSE "chart_data")
        \o ".csv"

\* DataProcessor.prepare_chart_data on rows that each hold their values.
\* The frame of rows none of which has an x has no column x (KeyError); in
\* the frame of rows some of which have one, the cell of a row without is
\* NaN, which the parser cannot iterate.  The table is parsed and saved
\* before its records are written, and to_json refuses a table two columns
\* of which have the same name.
PrepareChartData(results, chart_config) ==
    IF results = <<>>
    THEN [data |-> NoTable, error |-> NoRows]
    ELSE IF \A r \in 1..Len(results) : "x" \notin DOMAIN results[r]
    THEN [data |-> NoTable, error |-> "'x'"]
    ELSE IF \E r \in 1..Len(results) : "x" \notin DOMAIN results[r]
    THEN [data |-> NoTable, error |-> "'float' object is not iterable"]
    ELSE LET t == ParseExplorationResults(results, AxisLabels(chart_config, "x"),
                                          AxisLabels(chart_config, "y"))
         IN  IF \E i, j \in 1..Len(t.columns) : i # j /\ t.columns[i] = t.columns[j]
             THEN [data |-> NoTable,
                   error |-> "DataFrame columns must be unique for orient='records'."]
             ELSE [data |-> Table(t),
                   json_data |-> JsonData(t),
                   csv_path |-> CsvPath(chart_config),
                   row_count |-> Len(t.rows),
                   column_count |-> Len(t.columns)]

\* execute_exploration reads the chart's id and sourceURL before its try.
ExplorationRaises(chart) == "id" \notin DOMAIN chart \/ "sourceURL" \notin DOMAIN chart

\* The body of Execution's loop for one chart, the call doing `o`.
Explore(chart, o) ==
    IF ExplorationRaises(chart)
    THEN Update(chart, [json_data |-> JsonNull])
    ELSE Update(chart, PrepareChartData(ExplorationResult(o), ChartConfig(chart)))

\* What the log records for a chart: the call's doing, or that it raised.
Logged(chart, o) == IF ExplorationRaises(chart) THEN "raised" ELSE o

\* ExecutionNode.__call__: the charts of the response are explored in order
\* and updated in place; the response list itself becomes one search result.
Execution ==
    /\ node = "analytics_execution"
    /\ phase = "enter"
    /\ trace' = Append(trace, node)
    /\ IF ~ValidateInput
       THEN /\ Return(HandleError("execution", InvalidInput))
            /\ UNCHANGED <<response, exec_log>>
       ELSE IF response.none
       THEN /\ Return(HandleError("execution", NotIterable))
            /\ UNCHANGED <<response, exec_log>>
       ELSE \E did \in [1..Len(response.items) -> CallOutcomes] :
              LET charts == [i \in 1..Len(response.items) |->
                                Explore(response.items[i], did[i])]
              IN  /\ response' = ListOf(charts)
                  /\ exec_log' = [i \in 1..Len(response.items) |->
                                    Logged(response.items[i], did[i])]
                  /\ Return([search_results |-> <<[list |-> charts]>>])
    /\ search_results' = InPlace(response'.items)
    /\ UNCHANGED <<node, attempt, llm_calls, datasets, request, outcome, question,
                   final_response, errors, execution_metadata,
                   merged, shared, snapshot, prompt_info, handles, http, proposed>>

(***************************************************************************)
(* InterpretationNode.                                                     *)
(***************************************************************************)
LLMTexts == {"answer"}

\* InterpretationNode.validate_input
InterpretationValid ==
    /\ ValidateInput
    /\ ~(search_results = <<>> /\ (response.none \/ response.items = <<>>))

\* The keys of the GraphState create_initial_state builds that the nodes
\* read with state.get: all of them are in the state from the start.
StateKeys == {"question", "search_results", "response", "final_response", "errors",
              "execution_metadata", "ai", "at"}

\* state.get("search_results", state.get("response", [])): the default is
\* taken only when the key is not in the state.
Information ==
    IF "search_results" \in StateKeys THEN search_results
    ELSE IF "response" \in StateKeys THEN response.items
    ELSE <<>>

\* An update that hands the search results it read back to the graph.
InterpretationDeltaEchoing(content) ==
    [final_response |-> content, search_results |-> search_results]

\* return {"final_response": response.content}
InterpretationDelta(content) == [final_response |-> content]

\* InterpretationNode.__call__: one LLM invocation, no retry.
Interpretation ==
    /\ node = "interpretation"
    /\ phase = "enter"
    /\ trace' = Append(trace, node)
    /\ IF ~InterpretationValid
       THEN /\ Return(HandleError("interpretation", InvalidInput))
            /\ llm_calls' = llm_calls
            /\ prompt_info' = prompt_info
       ELSE /\ llm_calls' = llm_calls + 1
            /\ prompt_info' = Information
            /\ \/ \E content \in LLMTexts : Return(InterpretationDelta(content))
               \/ Return(HandleError("interpretation", LLMFailed))
    /\ UNCHANGED <<node, attempt, datasets, request, outcome, stateVars, merged,
                   shared, snapshot, handles, http, proposed, exec_log>>

(***************************************************************************)
(* What the LLM can answer.  A planning answer is a list of proposed       *)
(* charts whose fields name a column, a type and a format or calculation;  *)
(* a filter-decision answer is a list of QueryConfig dicts.                *)
(***************************************************************************)
PX(c, t, f) == [columnID |-> c, type |-> t, format |-> f]
PY(c, t, calc) == [columnID |-> c, type |-> t, calculation |-> calc]
Proposal(d, x, y, f) == [id |-> d, x |-> x, y |-> y, filter |-> f]

QX(c, n, t, f) == [columnID |-> c, displayName |-> n, type |-> t, format |-> f]
QY(c, n, calc) == [columnID |-> c, displayName |-> n, calculation |-> calc]
QF(c, n, t, f, op, v) ==
    [columnID |-> c, displayName |-> n, type |-> t, format |-> f,
     operator |-> op, value |-> v]
Query(d, x, y, f) ==
    [sourceURL |-> SourceURL, id |-> d, name |-> DatasetName(d),
     x |-> x, y |-> y, filter |-> f]

\* The proposals the pipeline runs on: a chart of each dataset, a chart of a
\* dataset nobody searched, a chart on a column its dataset does not have.
PipelineCharts ==
    {Proposal("d1", <<PX("c1", "nominal", "")>>, <<PY("c2", "integer", "sum")>>,
              <<PX("c3", "date", "year")>>),
     Proposal("d2", <<PX("c4", "space", "admin_level_4")>>, <<>>, <<>>),
     Proposal(UnknownKey, <<>>, <<>>, <<>>),
     Proposal("d1", <<PX("cz", "nominal", "")>>, <<>>, <<>>)}

PipelineProposals == SeqsUpTo(PipelineCharts, MaxCharts)

\* The QueryLists the pipeline runs on: the d1 chart with its filter decided,
\* the same with another operator, the same filtered on another column, the
\* d2 chart, and a d1 chart that counts the column it groups by.
PipelineQuerys ==
    {Query("d1", <<QX("c1", "city", "nominal", "")>>, <<QY("c2", "amount", "sum")>>,
           <<QF("c3", "day", "date", "year", "in", <<"v1">>)>>),
     Query("d1", <<QX("c1", "city", "nominal", "")>>, <<QY("c2", "amount", "sum")>>,
           <<QF("c3", "day", "date", "year", "range", <<"v1">>)>>),
     Query("d1", <<QX("c1", "city", "nominal", "")>>, <<QY("c2", "amount", "sum")>>,
           <<QF("c1", "city", "nominal", "", "eq", <<"v1">>)>>),
     Query("d2", <<QX("c4", "area", "space", "admin_level_4")>>, <<>>, <<>>),
     Query("d1", <<QX("c2", "amount", "integer", "")>>, <<QY("c2", "amount", "count")>>,
           <<>>)}

PipelineAnswers == SeqsUpTo(PipelineQuerys, MaxCharts)

(***************************************************************************)
(* The pipeline.                                                           *)
(***************************************************************************)
Next ==
    \/ Invoke
    \/ SearchEnter
    \/ SearchAttempt(SearchAnswers)
    \/ PlanningEnter
    \/ PlanningAttempt(PipelineProposals)
    \/ FilterEnter
    \/ FilterAttempt(PipelineAnswers)
    \/ Execution
    \/ Interpretation
    \/ Merge

Spec == Init /\ [][Next]_vars

\* The pipeline run to its end, every LLM call either failing or giving the
\* one answer below: graph.invoke takes a step whenever one can be taken.
NextRun ==
    \/ Invoke
    \/ SearchEnter
    \/ SearchAttempt({<<>>, <<"d1">>})
    \/ PlanningEnter
    \/ PlanningAttempt({<<Proposal("d1", <<PX("c1", "nominal", "")>>,
                                   <<PY("c2", "integer", "sum")>>, <<>>)>>})
    \/ FilterEnter
    \/ FilterAttempt({<<Query("d1", <<QX("c1", "city", "nominal", "")>>,
                               <<QY("c2", "amount", "sum")>>, <<>>)>>})
    \/ Execution
    \/ Interpretation
    \/ Merge

SpecRun == Init /\ [][NextRun]_vars /\ WF_vars(NextRun)

(***************************************************************************)
(* Planning on its own: entered in a state a successful Search leaves,     *)
(* with the LLM proposing any single chart over the fields below, or any   *)
(* list of the pipeline's charts.                                          *)
(***************************************************************************)
ProposedX ==
    {PX("c1", "nominal", ""), PX("cz", "nominal", ""),
     PX("c3", "date", "year"), PX("c3", "date", "bogus")}
ProposedY ==
    {PY("c2", "integer", "sum"), PY("cz", "integer", "sum"),
     PY("cz", "nominal", "count"), PY("c1", "nominal", "count"),
     PY("cz", "integer", "median")}
ProposedFilter == {PX("c3", "date", "year"), PX("cz", "date", "year")}

ProposedCharts ==
    {Proposal(d, x, y, f) :
        d \in DatasetIds \cup {UnknownKey},
        x \in SeqsUpTo(ProposedX, MaxFields),
        y \in SeqsUpTo(ProposedY, MaxFields),
        f \in SeqsUpTo(ProposedFilter, MaxFields)}

PlanningProposals == {<<c>> : c \in ProposedCharts} \cup PipelineProposals

\* The state the graph hands to Planning after a Search that selected
\* `keys` among the datasets `found`.
AfterSearch(found, keys) ==
    LET ds == [d \in found |-> DatasetSummary(d, TRUE)]
        filtered == FilteredDatasets(ds, keys)
    IN  /\ node = "analytics_planning"
        /\ phase = "enter"
        /\ attempt = 0
        /\ llm_calls = 0
        /\ datasets = NoDatasets
        /\ request = [question |-> "q", ai |-> "key"]
        /\ outcome = "pending"
        /\ question = "q"
        /\ response = ListOf(filtered)
        /\ search_results = filtered
        /\ final_response = PyNone
        /\ errors = <<>>
        /\ execution_metadata = SearchMetadata(InitialMetadata, ds, filtered)
        /\ delta = NoDelta
        /\ trace = <<"aralia_search">>
        /\ merged = <<"aralia_search">>
        /\ proposed = <<>>
        /\ exec_log = <<>>
        /\ shared = TRUE
        /\ snapshot = NoDelta
        /\ prompt_info = <<>>
        /\ handles = Prepared
        /\ http = NoHttp

InitPlanning ==
    \E found \in SUBSET DatasetIds, keys \in SearchAnswers : AfterSearch(found, keys)

NextPlanning ==
    \/ PlanningEnter
    \/ PlanningAttempt(PlanningProposals)
    \/ Merge

SpecPlanning == InitPlanning /\ [][NextPlanning]_vars

(***************************************************************************)
(* Search run twice: SearchNode is called again on the state its first     *)
(* update was merged into, the dataset search answering the same candidates *)
(* and the LLM, when it answers, the same dataset_key.  The state of the   *)
(* first call holds the data client, the credentials to make one, or       *)
(* neither.                                                                *)
(***************************************************************************)
InitSearch ==
    /\ node = "aralia_search"
    /\ phase = "enter"
    /\ attempt = 0
    /\ llm_calls = 0
    /\ datasets = NoDatasets
    /\ request = [question |-> "q", ai |-> "key"]
    /\ outcome = "pending"
    /\ question = "q"
    /\ response = NoneList
    /\ search_results = <<>>
    /\ final_response = PyNone
    /\ errors = <<>>
    /\ execution_metadata = InitialMetadata
    /\ delta = NoDelta
    /\ trace = <<>>
    /\ merged = <<>>
    /\ proposed = <<>>
    /\ exec_log = <<>>
    /\ shared = FALSE
    /\ snapshot = NoDelta
    /\ prompt_info = <<>>
    /\ handles \in {Prepared, [Prepared EXCEPT !.at = PyNone],
                    [Prepared EXCEPT !.at = PyNone, !.credentials = FALSE]}
    /\ http = NoHttp

\* The first update is merged and SearchNode is called again: validate_input
\* passes on the same question and search_datasets answers the same
\* candidates, so the node is back in its retry loop with the same datasets.
SearchAgain ==
    /\ node = "aralia_search"
    /\ phase = "merge"
    /\ merged = <<>>
    /\ "errors" \notin DOMAIN delta
    /\ response' = Merged("response", response)
    /\ search_results' = Merged("search_results", search_results)
    /\ final_response' = Merged("final_response", final_response)
    /\ errors' = Merged("errors", errors)
    /\ execution_metadata' = Merged("execution_metadata", execution_metadata)
    /\ snapshot' = Update(delta, [dataset_key |-> proposed])
    /\ merged' = Append(merged, node)
    /\ trace' = Append(trace, node)
    /\ phase' = "loop"
    /\ attempt' = 0
    /\ llm_calls' = 0
    /\ delta' = NoDelta
    /\ shared' = TRUE
    /\ handles' = [handles EXCEPT !.ai = Merged("ai", handles.ai),
                                   !.at = Merged("at", handles.at)]
    /\ UNCHANGED <<node, datasets, proposed, request, outcome, question, exec_log,
                   prompt_info, http>>

\* The retry loop of the first run: the LLM answers anything.
FirstSearchAttempt == merged = <<>> /\ SearchAttempt(SearchAnswers)

\* The retry loop of the second run: the LLM answers what it answered.
SameSearchAttempt == merged # <<>> /\ SearchAttempt({snapshot.dataset_key})

NextSearch ==
    \/ SearchEnter
    \/ FirstSearchAttempt
    \/ SearchAgain
    \/ SameSearchAttempt

SpecSearch == InitSearch /\ [][NextSearch]_vars

(***************************************************************************)
(* Interpretation alone: InterpretationNode is called on a state holding   *)
(* any search results and any response.                                    *)
(***************************************************************************)
InterpretationResults ==
    {DatasetSummary("d1", TRUE), DatasetSummary("d2", TRUE), [list |-> <<>>]}

InterpretationCharts == {PostProcess(q) : q \in PipelineQuerys}

InitInterpretation ==
    /\ node = "interpretation"
    /\ phase = "enter"
    /\ attempt = 0
    /\ llm_calls = 0
    /\ datasets = NoDatasets
    /\ request = [question |-> "q", ai |-> "key"]
    /\ outcome = "pending"
    /\ question \in {PyNone, "q"}
    /\ response \in {NoneList} \cup {ListOf(c) : c \in SeqsUpTo(InterpretationCharts, MaxCharts)}
    /\ search_results \in SeqsUpTo(InterpretationResults, MaxKeys)
    /\ final_response = PyNone
    /\ errors = <<>>
    /\ execution_metadata = InitialMetadata
    /\ delta = NoDelta
    /\ trace = <<>>
    /\ merged = <<>>
    /\ proposed = <<>>
    /\ exec_log = <<>>
    /\ shared = FALSE
    /\ snapshot = NoDelta
    /\ prompt_info = <<>>
    /\ handles = Prepared
    /\ http = NoHttp

NextInterpretation == Interpretation \/ Merge

SpecInterpretation == InitInterpretation /\ [][NextInterpretation]_vars

(***************************************************************************)
(* Execution on answers of any length: ExecutionNode is called on one      *)
(* finalized chart and the exploration call answers n rows.                *)
(***************************************************************************)
MaxRows == 402

\* n rows of one x dimension and one value.
Rows(n) == [i \in 1..n |-> [x |-> <<<<i>>>>, values |-> <<10 * i>>]]

InitRows ==
    /\ node = "analytics_execution"
    /\ phase = "enter"
    /\ attempt = 0
    /\ llm_calls = 0
    /\ datasets = NoDatasets
    /\ request = [question |-> "q", ai |-> "key"]
    /\ outcome = "pending"
    /\ question = "q"
    /\ response \in {ListOf(<<c>>) : c \in InterpretationCharts}
    /\ search_results = <<>>
    /\ final_response = PyNone
    /\ errors = <<>>
    /\ execution_metadata = InitialMetadata
    /\ delta = NoDelta
    /\ trace = <<>>
    /\ merged = <<>>
    /\ proposed = <<>>
    /\ exec_log = <<>>
    /\ shared = FALSE
    /\ snapshot = NoDelta
    /\ prompt_info = <<>>
    /\ handles = Prepared
    /\ http = NoHttp

\* ExecutionNode.__call__ with every exploration call answering n rows.
ExecutionRows ==
    /\ node = "analytics_execution"
    /\ phase = "enter"
    /\ ValidateInput
    /\ ~response.none
    /\ trace' = Append(trace, node)
    /\ \E n \in 0..MaxRows :
          LET charts == [i \in 1..Len(response.items) |->
                            Update(response.items[i],
                                   PrepareChartData(Rows(n),
                                                    ChartConfig(response.items[i])))]
          IN  /\ response' = ListOf(charts)
              /\ exec_log' = [i \in 1..Len(response.items) |->
                                IF n = 0 THEN "empty" ELSE "rows"]
              /\ Return([search_results |-> <<[list |-> charts]>>])
    /\ search_results' = InPlace(response'.items)
    /\ UNCHANGED <<node, attempt, llm_calls, datasets, request, outcome, question,
                   final_response, errors, execution_metadata, merged, shared,
                   snapshot, prompt_info, handles, http, proposed>>

NextRows == ExecutionRows \/ Merge

SpecRows == InitRows /\ [][NextRows]_vars

(***************************************************************************)
(* AraliaClient._make_request under @retry_on_failure(max_retries=2): one   *)
(* data-client operation from its call to its return or its exception.     *)
(***************************************************************************)
MaxRetries == 2
RequestTries == 2

\* retry_on_failure's except clause: the exception leaves the wrapper after
\* the last call of the function, and the function is called again before.
HttpRaise(h) ==
    IF h.call = MaxRetries THEN [h EXCEPT !.pc = "raised"]
    ELSE [h EXCEPT !.pc = "enter", !.call = @ + 1]

\* The function is entered: the token check, the headers.
HttpEnter ==
    /\ http.pc = "enter"
    /\ http' = IF http.token = 0 THEN HttpRaise(http)
               ELSE [http EXCEPT !.pc = "send", !.try = 0, !.header = http.token]
    /\ UNCHANGED <<node, phase, attempt, llm_calls, datasets, request, outcome,
                   stateVars, delta, trace, merged, proposed, exec_log, shared,
                   snapshot, prompt_info, handles>>

\* One iteration of `for attempt in range(2)`: the request is sent and
\* answered 200, 401, another error status, another success status, or not
\* at all (a RequestException); on a 401 of the first iteration the client
\* re-authenticates, which works, raises a RequestException or raises
\* another exception.  The answer the loop ends with (a 200, or the other
\* success status of the second iteration) is parsed after the loop,
\* response.json().get("data", {}), and a body that does not parse raises
\* out of the function like any other exception.
HttpSend ==
    /\ http.pc = "send"
    /\ http.try < RequestTries
    /\ \E status \in {"200", "201", "401", "500", "timeout"},
          auth \in {"ok", "RequestException", "KeyError"}, parsed \in BOOLEAN :
          LET h == [http EXCEPT !.sent = Append(@, [call |-> http.call,
                                                    try |-> http.try,
                                                    token |-> http.header,
                                                    status |-> status])]
              again == IF h.try = 0 THEN [h EXCEPT !.try = 1] ELSE HttpRaise(h)
          IN  http' =
                IF status = "200"
                THEN IF parsed THEN [h EXCEPT !.pc = "returned"] ELSE HttpRaise(h)
                ELSE IF status = "401" /\ h.try = 0
                THEN IF auth = "ok"
                     THEN [h EXCEPT !.try = 1, !.token = @ + 1, !.header = h.token + 1,
                                    !.auths = @ + 1]
                     ELSE IF auth = "RequestException" THEN again
                     ELSE HttpRaise(h)
                ELSE IF status = "201"
                THEN IF h.try = 0 THEN [h EXCEPT !.try = 1]
                     ELSE IF parsed THEN [h EXCEPT !.pc = "returned"]
                     ELSE HttpRaise(h)
                ELSE again
    /\ UNCHANGED <<node, phase, attempt, llm_calls, datasets, request, outcome,
                   stateVars, delta, trace, merged, proposed, exec_log, shared,
                   snapshot, prompt_info, handles>>

\* A client that authenticated at construction, or was given no credentials,
\* is asked for one operation.
InitHttp ==
    /\ node = START
    /\ phase = "enter"
    /\ attempt = 0
    /\ llm_calls = 0
    /\ datasets = NoDatasets
    /\ request = [question |-> "q", ai |-> "key"]
    /\ outcome = "pending"
    /\ question = PyNone
    /\ response = NoneList
    /\ search_results = <<>>
    /\ final_response = PyNone
    /\ errors = <<>>
    /\ execution_metadata = InitialMetadata
    /\ delta = NoDelta
    /\ trace = <<>>
    /\ merged = <<>>
    /\ proposed = <<>>
    /\ exec_log = <<>>
    /\ shared = FALSE
    /\ snapshot = NoDelta
    /\ prompt_info = <<>>
    /\ handles = Prepared
    /\ http \in {[NoHttp EXCEPT !.pc = "enter", !.token = t] : t \in {0, 1}}

NextHttp == HttpEnter \/ HttpSend

SpecHttp == InitHttp /\ [][NextHttp]_vars

(***************************************************************************)
(* BaseNode.track_token_usage, called by nodes in any order and any number *)
(* of times on the execution metadata of one state.                        *)
(***************************************************************************)
MaxTokens == 1
MaxTotal == 2

\* One recording.  extract_token_usage copies the three counters the LLM
\* result reports, the total as reported and 0 for one it does not report;
\* when that total is 0 and both texts are given, the usage is estimated
\* from the texts instead, its total the sum of the two estimates.  The
\* usage is stored under the node's name and added to the aggregate, in the
\* state's own metadata.
TrackTokenUsage ==
    \E n \in Range(Nodes), texts \in BOOLEAN,
       p \in 0..MaxTokens, c \in 0..MaxTokens, t \in 0..MaxTokens :
        LET md == execution_metadata
            token_usage ==
                IF t = 0 /\ texts
                THEN [prompt_tokens |-> p, completion_tokens |-> c,
                      total_tokens |-> p + c]
                ELSE [prompt_tokens |-> p, completion_tokens |-> c,
                      total_tokens |-> t]
            per_node == IF "node_token_usage" \in DOMAIN md THEN md.node_token_usage
                        ELSE [k \in {} |-> token_usage]
            total == IF "token_usage" \in DOMAIN md THEN md.token_usage
                     ELSE [prompt_tokens |-> 0, completion_tokens |-> 0,
                           total_tokens |-> 0]
            added == [k \in DOMAIN total |-> total[k] + token_usage[k]]
        IN  /\ \A k \in DOMAIN added : added[k] <= MaxTotal
            /\ execution_metadata' =
                  Update(md,
                    [node_token_usage |->
                        [k \in DOMAIN per_node \cup {NodeName(n)} |->
                            IF k = NodeName(n) THEN token_usage ELSE per_node[k]],
                     token_usage |-> added])
            /\ UNCHANGED <<node, phase, attempt, llm_calls, datasets, request, outcome,
                           question, response, search_results, final_response, errors,
                           delta, trace, merged, proposed, exec_log, shared, snapshot,
                           prompt_info, handles, http>>

InitTokens ==
    /\ node = Nodes[1]
    /\ phase = "enter"
    /\ attempt = 0
    /\ llm_calls = 0
    /\ datasets = NoDatasets
    /\ request = [question |-> "q", ai |-> "key"]
    /\ outcome = "pending"
    /\ question = "q"
    /\ response = NoneList
    /\ search_results = <<>>
    /\ final_response = PyNone
    /\ errors = <<>>
    /\ execution_metadata = InitialMetadata
    /\ delta = NoDelta
    /\ trace = <<>>
    /\ merged = <<>>
    /\ proposed = <<>>
    /\ exec_log = <<>>
    /\ shared = FALSE
    /\ snapshot = NoDelta
    /\ prompt_info = <<>>
    /\ handles = Prepared
    /\ http = NoHttp

SpecTokens == InitTokens /\ [][TrackTokenUsage]_vars

(***************************************************************************)
(* Filter Decision on its own: entered on one chart spec Planning built,   *)
(* with the LLM answering any single query over the fields below, or any   *)
(* list of the pipeline's querys.                                          *)
(***************************************************************************)
MaxFilters == 2

FilterX ==
    {QX("c1", "city", "nominal", ""), QX("c1", "city", "nominal", "year"),
     QX("c3", "day", "datetime", ""), QX("c4", "area", "space", "admin_level_4"),
     QX("c2", "amount", "integer", "")}
FilterF ==
    {QF("c3", "day", "date", "year", "in", <<"v1">>),
     QF("c1", "city", "nominal", "", "in", <<"v1">>),
     QF("c1", "city", "nominal", "bogus", "in", <<"v2">>),
     QF("c4", "area", "point", "admin_level_4", "in", <<"v1">>)}

FilterAnswers ==
    {<<Query("d1", x, <<>>, f)>> :
        x \in SeqsUpTo(FilterX, MaxFields), f \in SeqsUpTo(FilterF, MaxFilters)}
    \cup PipelineAnswers

\* The chart specs Planning builds from the pipeline's two sound proposals.
PlannedCharts ==
    LET ds == [d \in DatasetIds |-> Metadata(d)]
    IN  {BuildChart(ds, c) : c \in {q \in PipelineCharts : ~ChartRaises(ds, q)}}

InitFilter ==
    /\ node = "filter_decision"
    /\ phase = "enter"
    /\ attempt = 0
    /\ llm_calls = 0
    /\ datasets = NoDatasets
    /\ request = [question |-> "q", ai |-> "key"]
    /\ outcome = "pending"
    /\ question = "q"
    /\ response \in {ListOf(<<c>>) : c \in PlannedCharts}
    /\ search_results = <<>>
    /\ final_response = PyNone
    /\ errors = <<>>
    /\ execution_metadata = InitialMetadata
    /\ delta = NoDelta
    /\ trace = <<>>
    /\ merged = <<>>
    /\ proposed = <<>>
    /\ exec_log = <<>>
    /\ shared = FALSE
    /\ snapshot = NoDelta
    /\ prompt_info = <<>>
    /\ handles = Prepared
    /\ http = NoHttp

NextFilter == FilterEnter \/ FilterAttempt(FilterAnswers) \/ Merge

SpecFilter == InitFilter /\ [][NextFilter]_vars

(***************************************************************************)
(* The public node functions analytics_planning_agent,                     *)
(* filter_decision_agent and analytics_execution_agent: each calls its     *)
(* node instance inside node_with_error_handling.  The graph adds the node *)
(* instances, never these functions; a caller of one hands it a state and  *)
(* gets the update back, no graph merging it.  The node inside turns every *)
(* exception into an update, so the wrapper's own retry never runs.        *)
(***************************************************************************)
\* The wrapper up to the call of the node: current_node is set in the state
\* handed in, and a state whose question is not a non-blank string is
\* answered at once.
AgentEnter ==
    LET RECURSIVE Blank(_)
        Blank(text) == Len(text) = 0 \/ (SubSeq(text, 1, 1) = " "
                                          /\ Blank(SubSeq(text, 2, Len(text))))
    IN  /\ "agent" \in DOMAIN request
        /\ phase = "call"
        /\ execution_metadata' =
              Update(execution_metadata, [current_node |-> request.agent])
        /\ IF question = PyNone \/ Blank(question)
           THEN /\ delta' = [errors |-> <<request.agent \o ": Invalid state provided">>]
                /\ phase' = "done"
           ELSE /\ delta' = delta
                /\ phase' = "enter"
        /\ UNCHANGED <<node, attempt, llm_calls, datasets, request, outcome, question,
                       response, search_results, final_response, errors, trace,
                       merged, proposed, exec_log, shared, snapshot, prompt_info,
                       handles, http>>

\* The node has returned its update: the function's name is appended to the
\* state's completed_nodes (the list itself), and the update's
\* execution_metadata, made if the update has none, takes that list, a null
\* current_node and the time the call took.
AgentReturn ==
    /\ "agent" \in DOMAIN request
    /\ phase = "merge"
    /\ LET completed == Append(execution_metadata.completed_nodes, request.agent)
           returned == IF "execution_metadata" \in DOMAIN delta
                       THEN delta.execution_metadata
                       ELSE [k \in {} |-> PyNone]
       IN  /\ execution_metadata' =
                 Update(execution_metadata, [completed_nodes |-> completed])
           /\ delta' =
                 Update(delta,
                        [execution_metadata |->
                           Update(returned,
                                  [completed_nodes |-> completed,
                                   current_node |-> PyNone]
                                  @@ ((request.agent \o "_execution_time") :> "seconds"))])
    /\ phase' = "done"
    /\ UNCHANGED <<node, attempt, llm_calls, datasets, request, outcome, question,
                   response, search_results, final_response, errors, trace,
                   merged, proposed, exec_log, shared, snapshot, prompt_info,
                   handles, http>>

\* A function is called on a state create_initial_state built, its response
\* not set, empty, the datasets of a search, a finalized chart, or a chart
\* not yet finalized followed by a finalized one.
InitAgents ==
    /\ node \in {"analytics_planning", "filter_decision", "analytics_execution"}
    /\ phase = "call"
    /\ attempt = 0
    /\ llm_calls = 0
    /\ datasets = NoDatasets
    /\ request = [agent |-> node \o "_agent"]
    /\ outcome = "pending"
    /\ question \in {PyNone, " ", "q"}
    /\ response \in {NoneList, ListOf(<<>>), ListOf(<<DatasetSummary("d1", TRUE)>>),
                      ListOf(<<Query("d1", <<QX("c1", "city", "nominal", "")>>,
                                     <<QY("c2", "amount", "sum")>>,
                                     <<[list |-> <<>>]>>)>>),
                      ListOf(<<Query("d1", <<QX("c1", "city", "nominal", "")>>,
                                     <<QY("c2", "amount", "sum")>>,
                                     <<PX("c3", "date", "year")>>),
                               Query("d1", <<QX("c1", "city", "nominal", "")>>,
                                     <<QY("c2", "amount", "sum")>>,
                                     <<[list |-> <<>>]>>)>>)}
    /\ search_results = <<>>
    /\ final_response = PyNone
    /\ errors = <<>>
    /\ execution_metadata = InitialMetadata
    /\ delta = NoDelta
    /\ trace = <<>>
    /\ merged = <<>>
    /\ proposed = <<>>
    /\ exec_log = <<>>
    /\ shared = FALSE
    /\ snapshot = NoDelta
    /\ prompt_info = <<>>
    /\ handles = Prepared
    /\ http = NoHttp

NextAgents ==
    \/ AgentEnter
    \/ PlanningEnter
    \/ PlanningAttempt({<<Proposal("d1", <<PX("c1", "nominal", "")>>,
                                   <<PY("c2", "integer", "sum")>>, <<>>)>>})
    \/ FilterEnter
    \/ FilterAttempt({<<Query("d1", <<QX("c1", "city", "nominal", "")>>,
                               <<QY("c2", "amount", "sum")>>, <<>>)>>})
    \/ Execution
    \/ AgentReturn

SpecAgents == InitAgents /\ [][NextAgents]_vars

(***************************************************************************)
(* The claims.                                                             *)
(***************************************************************************)
Last(s) == s[Len(s)]

\* The node's update is on its way to the graph.
Returned(n) == node = n /\ phase = "merge"
Succeeded(n) == Returned(n) /\ "errors" \notin DOMAIN delta
Failed(n) == Returned(n) /\ "errors" \in DOMAIN delta

\* The failures the specification calls fatal: (node name, exception text).
FatalFailures ==
    {<<"search", SearchExhausted>>, <<"planning", NoData>>,
     <<"planning", PlanningExhausted>>, <<"filter_decision", FilterExhausted>>,
     <<"interpretation", LLMFailed>>}

GraphNodeOf(name) == CHOOSE n \in Range(Nodes) : NodeName(n) = name

\* C1: once a fatal failure is in errors, the failed stage is the last stage
\* that executed and invoke does not return a result (it raises).
C1_FatalFailureAborts ==
    \A f \in FatalFailures :
        ErrorMsg(f[1], f[2]) \in Range(errors)
        => /\ Last(trace) = GraphNodeOf(f[1])
           /\ outcome # "returned"

\* C2: a returned result has either a final response and no error, or errors
\* and no final response.
C2_AnswerOrErrors ==
    outcome = "returned"
    => \/ final_response # PyNone /\ errors = <<>>
       \/ final_response = PyNone /\ errors # <<>>

\* C3: the stages execute in the graph's order, each at most once, and a
\* stage begins only when the update of every earlier stage has been merged.
C3_FixedOrderMergedFirst ==
    /\ Len(trace) <= Len(Nodes)
    /\ \A i \in 1..Len(trace) : trace[i] = Nodes[i]
    /\ Len(merged) <= Len(trace)
    /\ \A i \in 1..Len(merged) : merged[i] = trace[i]
    /\ Len(trace) <= Len(merged) + 1
    /\ Len(trace) > Len(merged) => node = Last(trace)
    /\ phase # "merge" => delta = NoDelta

C3_Witness ==
    node = END /\ outcome = "returned" /\ trace = Nodes /\ merged = Nodes

RetryNodes == {"aralia_search", "analytics_planning", "filter_decision"}

Exhausted(n) ==
    CASE n = "aralia_search" -> SearchExhausted
      [] n = "analytics_planning" -> PlanningExhausted
      [] n = "filter_decision" -> FilterExhausted

\* C4: a retrying stage never invokes the LLM a 6th time, is still retrying
\* only with fewer than 5 invocations made, and if it fails after invoking the
\* LLM (every answer was unusable) it has made exactly 5 invocations and
\* fails with its designated error.
C4_ExactlyFiveAttempts ==
    node \in RetryNodes
    => /\ llm_calls <= 5
       /\ phase = "loop" => llm_calls < 5
       /\ (Failed(node) /\ llm_calls > 0)
          => /\ llm_calls = 5
             /\ delta = HandleError(NodeName(node), Exhausted(node))

C4_Witness ==
    /\ Failed("filter_decision")
    /\ llm_calls = 5
    /\ delta = HandleError("filter_decision", FilterExhausted)
    /\ ErrorMsg("search", SearchExhausted) \notin Range(errors)


\* C5: when every earlier stage succeeded, exactly one exploration call fails
\* and the others answer rows, the stage outputs one entry per chart, the failed one with json_data null and
\* the others with their json_data.
C5_OneFailedCallOneNull ==
    (/\ Succeeded("analytics_execution")
     /\ errors = <<>>
     /\ Cardinality({i \in 1..Len(exec_log) : exec_log[i] = "failed"}) = 1
     /\ \A i \in 1..Len(exec_log) : exec_log[i] \in {"failed", "rows"})
    => LET out == delta.search_results[1].list
       IN  /\ Len(out) = Len(exec_log)
           /\ \A i \in 1..Len(out) :
                /\ "json_data" \in DOMAIN out[i]
                /\ out[i].json_data.none <=> exec_log[i] = "failed"

\* C6: Execution never returns an error-shaped update.
C6_ExecutionNeverErrs ==
    Returned("analytics_execution") => "errors" \notin DOMAIN delta

ColumnIDs(fields) == [j \in 1..Len(fields) |-> fields[j].columnID]

\* C7: the charts Filter Decision outputs are the charts it was given, each
\* with the same filter entries (same count, same columnIDs in order).
C7_FilterEntriesPreserved ==
    (/\ Succeeded("filter_decision")
     /\ errors = <<>>
     /\ \A i \in 1..Len(response.items) : "filter" \in DOMAIN response.items[i])
    => LET given == response.items
           out == delta.response.items
       IN  /\ Len(out) = Len(given)
           /\ \A i \in 1..Len(out) :
                /\ out[i].id = given[i].id
                /\ ColumnIDs(out[i].filter[1].list) = ColumnIDs(given[i].filter)

\* C8: every filter field Filter Decision outputs has operator "in" when its
\* type is date, datetime, nominal or space, and a range-style operator when
\* its type is numeric.
C8_OperatorsFitTypes ==
    (Succeeded("filter_decision") /\ errors = <<>>)
    => \A i \in 1..Len(delta.response.items) :
         \A f \in Range(delta.response.items[i].filter[1].list) :
            /\ f.type \in {"date", "datetime", "nominal", "space"} => f.operator = "in"
            /\ f.type \in {"integer", "float"}
               => f.operator \in {"range", "lt", "gt", "lte", "gte"}

\* The fields of a chart, proposed or built.
AllFields(chart) == Range(chart.x) \cup Range(chart.y) \cup Range(chart.filter)

KnownColumn(ds, d, f) ==
    /\ d \in DOMAIN ds
    /\ "columnID" \in DOMAIN f
    /\ f.columnID \in DOMAIN ds[d].columns

\* C9: Planning emits chart specs only for a proposal every field of which
\* names a column of its (enriched) dataset; a proposal that names a missing
\* column or an unknown dataset is not emitted.
C9_NoMissingColumnProposed ==
    Succeeded("analytics_planning")
    => \A i \in 1..Len(proposed) :
         /\ proposed[i].id \in DOMAIN datasets
         /\ \A f \in AllFields(proposed[i]) : KnownColumn(datasets, proposed[i].id, f)

\* C10: after Planning found no retrievable metadata, the response never
\* holds a chart spec.
C10_NoChartSpecsAfterNoData ==
    ErrorMsg("planning", NoData) \in Range(errors)
    => \/ response.none
       \/ \A i \in 1..Len(response.items) : "x" \notin DOMAIN response.items[i]

\* C11: final_response is None until Interpretation's update is merged, only
\* that merge writes it, and once written it never changes.
C11_FinalResponseOnlyByInterpretation ==
    /\ [](final_response # PyNone
          => (merged = Nodes /\ Last(merged) = "interpretation"))
    /\ [][final_response' # final_response
          => /\ Succeeded("interpretation")
             /\ final_response = PyNone
             /\ final_response' = delta.final_response]_vars

C11_Witness ==
    final_response = "answer" /\ outcome = "returned" /\ Len(merged) = Len(Nodes)

\* C12: when Interpretation is entered with no final response and a non-empty
\* search_results and the LLM answers, the node's update and its merge set
\* final_response to the answer and leave search_results, errors, the
\* response and the metadata as they were.
C12_InterpretationWritesOnlyAnswer ==
    [][(/\ node = "interpretation"
        /\ final_response = PyNone
        /\ search_results # <<>>
        /\ \/ phase = "enter" /\ "final_response" \in DOMAIN delta'
           \/ Succeeded("interpretation"))
       => /\ search_results' = search_results
          /\ errors' = errors
          /\ response' = response
          /\ execution_metadata' = execution_metadata
          /\ question' = question
          /\ phase = "enter" => (delta'.final_response \in LLMTexts
                                 /\ final_response' = final_response)
          /\ phase = "merge" => final_response' = delta.final_response]_vars

C12_Witness ==
    /\ node = END
    /\ final_response \in LLMTexts
    /\ search_results # <<>>
    /\ Last(merged) = "interpretation"

\* C13: Interpretation invokes the LLM exactly once in every run: when the
\* stage returns, whether it answered or failed, one invocation was made.
C13_ExactlyOneInvocation ==
    Returned("interpretation") => llm_calls = 1

IsPrefix(s, t) == Len(s) <= Len(t) /\ \A i \in 1..Len(s) : s[i] = t[i]

\* C14: errors is append-only: every step leaves the errors it found as a
\* prefix of the errors it leaves.
C14_ErrorsAppendOnly == [][IsPrefix(errors, errors')]_vars

C14_Witness ==
    /\ Len(errors) >= 2
    /\ errors[1] = ErrorMsg("search", SearchExhausted)
    /\ errors[2] = ErrorMsg("planning", NotIterable)

\* C15: search_results is an append-only log: every step leaves the entries it
\* found, unchanged, as a prefix of the entries it leaves.
C15_SearchResultsAppendOnly == [][IsPrefix(search_results, search_results')]_vars

\* The exception texts a node can fail with.
ErrorTexts ==
    {InvalidInput, NotIterable, RequestFailed, LLMFailed, SearchExhausted, Unbound,
     NoData, NoSourceURL, PlanningExhausted, FilterExhausted}

\* C16: the merge of a failed node's update appends exactly one message,
\* "<name> node error: <text>", to errors and leaves <name>_failed = TRUE and
\* <name>_error = <text> in execution_metadata.
C16_FailureRecorded ==
    [][(phase = "merge" /\ "errors" \in DOMAIN delta)
       => \E text \in ErrorTexts :
            LET name == NodeName(node)
            IN  /\ errors' = Append(errors, name \o " node error: " \o text)
                /\ {name \o "_failed", name \o "_error"} \subseteq DOMAIN execution_metadata'
                /\ execution_metadata'[name \o "_failed"] = TRUE
                /\ execution_metadata'[name \o "_error"] = text]_vars

C16_Witness ==
    /\ node = "analytics_planning"
    /\ phase = "enter"
    /\ errors = <<"search node error: " \o SearchExhausted>>
    /\ "search_failed" \in DOMAIN execution_metadata
    /\ execution_metadata["search_failed"] = TRUE
    /\ execution_metadata["search_error"] = SearchExhausted

\* A run in which all five nodes completed without an error.
AllCompleted == outcome = "returned" /\ errors = <<>> /\ merged = Nodes

\* C17: while a node executes, execution_metadata.current_node names it, and
\* after a run in which all five nodes completed completed_nodes lists the
\* five in execution order.
C17_ProgressTracked ==
    /\ (node \in Range(Nodes) /\ phase = "loop")
       => /\ "current_node" \in DOMAIN execution_metadata
          /\ execution_metadata.current_node \in {node, NodeName(node)}
    /\ AllCompleted
       => /\ "completed_nodes" \in DOMAIN execution_metadata
          /\ Len(execution_metadata.completed_nodes) = Len(Nodes)
          /\ \A i \in 1..Len(Nodes) :
                execution_metadata.completed_nodes[i] \in {Nodes[i], NodeName(Nodes[i])}

\* C18: the result of a run in which all five nodes completed holds a token
\* usage record for every node that invoked the LLM and an aggregate record.
C18_TokenUsageExposed ==
    AllCompleted
    => /\ "token_usage" \in DOMAIN execution_metadata
       /\ "node_token_usage" \in DOMAIN execution_metadata
       /\ {"search", "planning", "filter_decision", "interpretation"}
             \subseteq DOMAIN execution_metadata.node_token_usage

\* The second run of Search has returned its update.
SearchedAgain == Succeeded("aralia_search") /\ snapshot # NoDelta

\* C19: Search run again on the same question, the same candidates and the
\* same LLM answer returns the same selected datasets and the same
\* total_datasets_found and selected_dataset_count as the first run.
C19_SearchIdempotent ==
    SearchedAgain
    => /\ delta.response = snapshot.response
       /\ delta.search_results = snapshot.search_results
       /\ delta.execution_metadata.total_datasets_found
            = snapshot.execution_metadata.total_datasets_found
       /\ delta.execution_metadata.selected_dataset_count
            = snapshot.execution_metadata.selected_dataset_count

C19_Witness ==
    /\ SearchedAgain
    /\ Len(delta.search_results) = 1
    /\ delta.execution_metadata.total_datasets_found = 2
    /\ search_results = snapshot.search_results

\* The positions of the LLM's dataset_key that name a candidate.
SelectedKeys == SelectSeq(proposed, LAMBDA k : k \in DOMAIN datasets)

\* C20: a successful Search outputs exactly the candidates the LLM selected,
\* in the LLM's order, as response and as search_results;
\* selected_dataset_count is the number of datasets output and
\* total_datasets_found the number of candidates.
C20_SearchOutputAndCounts ==
    Succeeded("aralia_search")
    => /\ ~delta.response.none
       /\ Len(delta.response.items) = Len(SelectedKeys)
       /\ \A i \in 1..Len(SelectedKeys) :
             /\ delta.response.items[i] = datasets[SelectedKeys[i]]
             /\ delta.response.items[i].id = SelectedKeys[i]
       /\ delta.search_results = delta.response.items
       /\ delta.execution_metadata.selected_dataset_count = Len(delta.response.items)
       /\ delta.execution_metadata.total_datasets_found = Cardinality(DOMAIN datasets)

C20_Witness ==
    /\ Succeeded("aralia_search")
    /\ Cardinality(DOMAIN datasets) = 2
    /\ Len(proposed) = 2
    /\ Len(delta.response.items) = 1
    /\ delta.execution_metadata.selected_dataset_count = 1
    /\ delta.execution_metadata.total_datasets_found = 2

\* C21: Planning outputs one chart spec per dataset: no two specs of its
\* output share a dataset id, and every spec's id is an enriched dataset.
C21_OneSpecPerDataset ==
    Succeeded("analytics_planning")
    => LET out == delta.response.items
       IN  /\ \A i, j \in 1..Len(out) : i # j => out[i].id # out[j].id
           /\ \A i \in 1..Len(out) : out[i].id \in DOMAIN datasets

\* C22: the information Interpretation puts in its prompt is search_results,
\* and the chart specs of the response when search_results is empty.
C22_InformationFallsBack ==
    (Returned("interpretation") /\ llm_calls = 1)
    => prompt_info = IF search_results # <<>> THEN search_results ELSE response.items

\* The column names of a chart's table for rows of one x dimension and one
\* value: the axis labels where the chart has exactly one, else positional.
OneLabel(chart, axis, positional) ==
    IF axis \in DOMAIN chart /\ Len(chart[axis]) = 1
    THEN <<chart[axis][1].displayName>>
    ELSE <<positional>>

\* C23: for the rows [{x: [["A"]], values: [10]}, {x: [["B"]], values: [20]}]
\* Execution attaches a table whose columns are the x label then the y label
\* (x1, value1 where the chart has not exactly one label) and whose rows are
\* (A, 10), (B, 20) in that order.
C23_TableFromRows ==
    Succeeded("analytics_execution")
    => \A i \in 1..Len(exec_log) :
         exec_log[i] = "rows"
         => LET c == delta.search_results[1].list[i]
            IN  /\ "data" \in DOMAIN c
                /\ ~c.data.none
                /\ c.data.columns = OneLabel(c, "x", "x1") \o OneLabel(c, "y", "value1")
                /\ c.data.rows = <<<<"A", 10>>, <<"B", 20>>>>
                /\ c.row_count = 2
                /\ c.column_count = 2

\* C24: the json_data Execution attached to a chart is the records of the
\* first min(n, 400) rows of the chart's n-row table, in order: never more
\* than 400, none dropped when n <= 400.
C24_JsonFirst400Rows ==
    Succeeded("analytics_execution")
    => \A i \in 1..Len(exec_log) :
         (exec_log[i] = "rows" /\ "json_data" \in DOMAIN delta.search_results[1].list[i])
         => LET c == delta.search_results[1].list[i]
                n == Len(c.data.rows)
                kept == IF n <= 400 THEN n ELSE 400
            IN  /\ c.row_count = n
                /\ ~c.json_data.none
                /\ Len(c.json_data.records) = kept
                /\ \A r \in 1..kept : \A k \in 1..Len(c.data.columns) :
                      c.json_data.records[r][c.data.columns[k]] = c.data.rows[r][k]

C24_Witness ==
    /\ Succeeded("analytics_execution")
    /\ Len(exec_log) = 1
    /\ delta.search_results[1].list[1].data.columns = <<"city", "amount">>
    /\ delta.search_results[1].list[1].row_count = 402
    /\ Len(delta.search_results[1].list[1].json_data.records) = 400
    /\ delta.search_results[1].list[1].json_data.records[400]["amount"] = 4000

\* C25: in every state of a run the question and the two handles equal
\* their values in the initial state, and no node's update carries a
\* different value for them.
C25_QuestionAndHandlesFixed ==
    (node # START /\ outcome # "raised")
    => /\ question = request.question
       /\ handles = Prepared
       /\ "question" \in DOMAIN delta => delta.question = request.question
       /\ "ai" \in DOMAIN delta => delta.ai = Prepared.ai
       /\ "at" \in DOMAIN delta => delta.at = Prepared.at

C25_Witness ==
    /\ merged = <<"aralia_search">>
    /\ errors = <<>>
    /\ node = "analytics_planning"
    /\ question = "q"
    /\ handles = Prepared

\* A stage's failure is recorded in errors.
StageErred(name) == \E t \in ErrorTexts : ErrorMsg(name, t) \in Range(errors)

\* C26: Execution sends the data source only chart specs that Planning
\* produced and Filter Decision finalized in the same run: when a spec was
\* sent, neither of the two stages failed before.
C26_OnlyFinalizedSpecsExplored ==
    Returned("analytics_execution")
    => \A i \in 1..Len(exec_log) :
          exec_log[i] # "raised"
          => ~StageErred("planning") /\ ~StageErred("filter_decision")

\* The candidates the dataset search returned.
Candidates == {datasets[d] : d \in DOMAIN datasets}

\* C27: every dataset Search outputs is a candidate of the dataset search,
\* and an LLM answer with a key that is no candidate id is accepted at once:
\* the key is dropped, the attempt is not retried and no error is returned.
C27_OutputWithinCandidates ==
    /\ Succeeded("aralia_search")
       => \A i \in 1..Len(delta.search_results) :
             /\ delta.search_results[i] \in Candidates
             /\ delta.response.items[i] \in Candidates
    /\ (node = "aralia_search" /\ \E i \in 1..Len(proposed) : proposed[i] \notin DOMAIN datasets)
       => /\ Succeeded("aralia_search")
          /\ Len(delta.search_results) = Len(SelectedKeys)
          /\ Len(delta.search_results) < Len(proposed)

C27_Witness ==
    /\ Succeeded("aralia_search")
    /\ proposed = <<UnknownKey, "d1">>
    /\ DOMAIN datasets = DatasetIds
    /\ Len(delta.search_results) = 1
    /\ delta.search_results[1].id = "d1"
    /\ attempt = 0

\* C28: a Search that completes without error outputs at least one dataset:
\* a selection that names no candidate does not succeed with an empty list.
C28_SuccessHasDataset ==
    Succeeded("aralia_search")
    => /\ Len(delta.search_results) >= 1
       /\ Len(delta.response.items) >= 1

\* CHART_PLOTTING, Phase 6 d and e: the calculations of a y field by type.
AllowedCalculations(type) ==
    IF type \in {"integer", "float"} THEN Calculations
    ELSE IF type = "nominal" THEN {"count", "distinct_count"}
    ELSE {}

CalculationAllowed(y) == y.calculation \in AllowedCalculations(y.type)

\* C29: Planning keeps a proposed y field if and only if its calculation is
\* allowed for its type, and drops every other y field without failing: the
\* y of each output spec is the allowed y fields of the proposal, in order.
C29_YKeptIffAllowed ==
    Succeeded("analytics_planning")
    => \A i \in 1..Len(proposed) :
          LET kept == SelectSeq(proposed[i].y, CalculationAllowed)
              out == delta.response.items[i].y
          IN  /\ Len(out) = Len(kept)
              /\ \A j \in 1..Len(out) :
                    /\ out[j].columnID = kept[j].columnID
                    /\ out[j].calculation = kept[j].calculation

\* CHART_PLOTTING, Phase 6 a, b and c: the format of a field by type.
FormatFits(f) ==
    IF f.type \in {"date", "datetime"} THEN f.format \in DateFormats
    ELSE IF f.type \in {"space", "point", "line", "polygon"} THEN f.format \in SpaceFormats
    ELSE f.format = ""

\* C30: in every chart spec Planning outputs, every x and every filter field
\* has the format of its type: a date format for date and datetime, an admin
\* level for the spatial types, the empty format for any other type.
C30_FormatsFitTypes ==
    Succeeded("analytics_planning")
    => \A i \in 1..Len(delta.response.items) :
          LET c == delta.response.items[i]
          IN  /\ \A j \in 1..Len(c.x) : FormatFits(c.x[j])
              /\ \A j \in 1..Len(c.filter) : FormatFits(c.filter[j])

\* C31: after Filter Decision every chart's filter is a list of exactly one
\* element, the list of the chart's filter fields (one empty list for an
\* empty filter), with the fields' number and order unchanged.
C31_FilterWrappedOnce ==
    Succeeded("filter_decision")
    => /\ Len(delta.response.items) = Len(proposed)
       /\ \A i \in 1..Len(proposed) :
             LET out == delta.response.items[i].filter
             IN  /\ Len(out) = 1
                 /\ Len(out[1].list) = Len(proposed[i].filter)
                 /\ \A j \in 1..Len(out[1].list) :
                       /\ out[1].list[j].columnID = proposed[i].filter[j].columnID
                       /\ out[1].list[j].type = proposed[i].filter[j].type
                       /\ out[1].list[j].operator = proposed[i].filter[j].operator
                       /\ out[1].list[j].value = proposed[i].filter[j].value

C31_Witness ==
    /\ Succeeded("filter_decision")
    /\ Len(proposed) = 1
    /\ Len(proposed[1].filter) = 2
    /\ proposed[1].filter[1].columnID = "c3"
    /\ proposed[1].filter[2].columnID = "c4"
    /\ Len(delta.response.items[1].filter) = 1
    /\ ColumnIDs(delta.response.items[1].filter[1].list) = <<"c3", "c4">>

\* C32: in Filter Decision's output an x or filter field carries a format
\* key if and only if its type is date, datetime or space, and a format left
\* on a field is the format the LLM answered.
C32_FormatKeyIffTyped ==
    Succeeded("filter_decision")
    => \A i \in 1..Len(proposed) :
          LET out == delta.response.items[i]
          IN  /\ \A j \in 1..Len(out.x) :
                    /\ "format" \in DOMAIN out.x[j]
                       <=> out.x[j].type \in {"date", "datetime", "space"}
                    /\ "format" \in DOMAIN out.x[j]
                       => out.x[j].format = proposed[i].x[j].format
              /\ \A j \in 1..Len(out.filter[1].list) :
                    /\ "format" \in DOMAIN out.filter[1].list[j]
                       <=> out.filter[1].list[j].type \in {"date", "datetime", "space"}
                    /\ "format" \in DOMAIN out.filter[1].list[j]
                       => out.filter[1].list[j].format = proposed[i].filter[j].format

C32_Witness ==
    /\ Succeeded("filter_decision")
    /\ Len(proposed) = 1
    /\ proposed[1].x = <<QX("c1", "city", "nominal", "year")>>
    /\ proposed[1].filter = <<QF("c4", "area", "point", "admin_level_4", "in", <<"v1">>),
                              QF("c3", "day", "date", "year", "in", <<"v1">>)>>
    /\ "format" \notin DOMAIN delta.response.items[1].x[1]
    /\ "format" \notin DOMAIN delta.response.items[1].filter[1].list[1]
    /\ delta.response.items[1].filter[1].list[2].format = "year"

\* C33: one data-client operation sends at most 2 HTTP requests to the API,
\* the original and one retry, after which the failure propagates.
C33_AtMostTwoRequests ==
    /\ Len(http.sent) <= 2
    /\ (Len(http.sent) = 2 /\ Last(http.sent).status \notin {"200", "201"})
       => http.pc = "raised"

\* C34: within one data-client call the token is refreshed at most once, the
\* request retried after a 401 carries a token other than the one the 401
\* answered, and a failed retry ends the call with the exception.
C34_OneReauthenticationCycle ==
    /\ http.auths <= 1
    /\ \A i \in 1..(Len(http.sent) - 1) :
          (http.sent[i].status = "401" /\ http.sent[i].try = 0
                                        /\ http.sent[i + 1].call = http.sent[i].call)
          => http.sent[i + 1].token # http.sent[i].token
    /\ \A i \in 1..Len(http.sent) :
          (http.sent[i].try = 1 /\ http.sent[i].status \notin {"200", "201"})
          => (i = Len(http.sent) /\ http.pc = "raised")

\* The LLM invocations a stage can make.
StageCalls(n) ==
    IF n \in RetryNodes THEN 5 ELSE IF n = "interpretation" THEN 1 ELSE 0

\* C35: every run terminates: a stage never makes more LLM invocations than
\* its bound (5, 5, 5, 0, 1), no stage runs twice, so that the invocations of
\* the running stage and the bounds of the stages already merged add up to
\* at most 16, and the run eventually reaches its terminal state.
C35_RunTerminatesWithin16 ==
    LET RECURSIVE CallsOf(_)
        CallsOf(stages) ==
            IF stages = <<>> THEN 0
            ELSE StageCalls(stages[1]) + CallsOf(Tail(stages))
    IN  /\ [](/\ node \in Range(Nodes) => llm_calls <= StageCalls(node)
              /\ \A i, j \in 1..Len(trace) : i # j => trace[i] # trace[j]
              /\ Range(trace) \subseteq Range(Nodes)
              /\ llm_calls + CallsOf(merged) <= 16)
        /\ <>[](node = END /\ outcome \in {"returned", "raised"})

C35_Witness ==
    /\ node = END
    /\ outcome = "returned"
    /\ trace = Nodes
    /\ errors = <<>>
    /\ final_response # PyNone

\* C36: a retrying stage whose k-th LLM answer (1 <= k <= 5) is the first
\* usable one has made exactly k invocations (k - 1 failed attempts), returns
\* no error and has recorded none, and its output is built from the k-th
\* answer: one dataset per selected key, one chart per proposed chart, one
\* chart per answered query, in the answer's order.
C36_FirstUsableAnswerWins ==
    \A n \in RetryNodes :
        Succeeded(n)
        => LET out == delta.response.items
           IN  /\ attempt + 1 <= 5
               /\ llm_calls = attempt + 1
               /\ ~StageErred(NodeName(n))
               /\ (NodeName(n) \o "_failed") \notin DOMAIN execution_metadata
               /\ n = "aralia_search"
                  => [i \in 1..Len(out) |-> out[i].id] = SelectedKeys
               /\ n # "aralia_search"
                  => /\ [i \in 1..Len(out) |-> out[i].id]
                          = [i \in 1..Len(proposed) |-> proposed[i].id]
                     /\ \A i \in 1..Len(out) :
                           ColumnIDs(out[i].x) = ColumnIDs(proposed[i].x)

C36_Witness ==
    /\ Succeeded("analytics_planning")
    /\ attempt = 2
    /\ llm_calls = 3
    /\ errors = <<>>
    /\ Len(proposed) = 2
    /\ Len(delta.response.items) = 2
    /\ delta.response.items[1].id = "d1"
    /\ delta.response.items[2].id = "d2"

\* C37: after any sequence of recordings, each of the aggregate's three
\* counters equals the sum of that counter over the per-node records.
C37_AggregateIsSum ==
    "token_usage" \in DOMAIN execution_metadata
    => LET per_node == execution_metadata.node_token_usage
           RECURSIVE Sum(_, _)
           Sum(names, k) ==
               IF names = {} THEN 0
               ELSE LET n == CHOOSE x \in names : TRUE
                    IN  per_node[n][k] + Sum(names \ {n}, k)
       IN  \A k \in {"prompt_tokens", "completion_tokens", "total_tokens"} :
              execution_metadata.token_usage[k] = Sum(DOMAIN per_node, k)

\* C38: no entry of execution_metadata is lost during a run: the returned
\* result still holds start_time and Search's counts, and the failed flag of
\* every stage whose failure is in errors.
C38_MetadataKept ==
    outcome = "returned"
    => /\ "start_time" \in DOMAIN execution_metadata
       /\ "total_datasets_found" \in DOMAIN execution_metadata
       /\ "selected_dataset_count" \in DOMAIN execution_metadata
       /\ \A n \in Range(Nodes) :
             StageErred(NodeName(n))
             => (NodeName(n) \o "_failed") \in DOMAIN execution_metadata

\* C39: a request without a question, or without a non-empty API key, makes
\* invoke raise before anything else happens: no handle is created, no stage
\* executes, no LLM or HTTP call is made and no state is produced.
C39_InvalidRequestRaisesFirst ==
    (node # START /\ (request.question = Absent \/ request.ai \in {Absent, ""}))
    => /\ node = END
       /\ outcome = "raised"
       /\ handles = NoHandles
       /\ http = NoHttp
       /\ trace = <<>>
       /\ merged = <<>>
       /\ llm_calls = 0
       /\ question = PyNone
       /\ response = NoneList
       /\ errors = <<>>
       /\ final_response = PyNone

C39_Witness ==
    /\ node = END
    /\ outcome = "raised"
    /\ request = [question |-> "q", ai |-> Absent]
    /\ handles = NoHandles
    /\ trace = <<>>

====
